---- MODULE Spec2Model ----
(***************************************************************************)
(* cargo-appimage: src/main.rs.                                            *)
(*                                                                         *)
(* One run of `main` is modelled step by step (one action per statement    *)
(* group of main, stage_libs as one action), over a file-system tree that  *)
(* persists from one run to the next.  Strings are sequences of tokens: a  *)
(* path such as /usr/lib/libfoo.so.1 is                                    *)
(*   <<"/", "usr", "/", "lib", "/", "libfoo", ".", "so.1">>                *)
(* so that &line[1..], Path::file_name, Path::parent, Path::join and the   *)
(* glob match are computed on the text, as the code computes them.         *)
(***************************************************************************)
EXTENDS Integers, Sequences, FiniteSets, TLC

\* Number of invocations of the program on the same target directory.
MaxRuns == 2

---------------------------------------------------------------------------
(* Text and paths *)

SEP == "/"

\* The library paths the loader inspector can report, and a vdso pseudo-entry.
UsrLibFoo == <<"/", "usr", "/", "lib", "/", "libfoo", ".", "so.1">>
UsrLibBar == <<"/", "usr", "/", "lib", "/", "libbar", ".", "so.2">>
LibFoo    == <<"/", "lib", "/", "libfoo", ".", "so.1">>
RootFoo   == <<"/", "libfoo", ".", "so.1">>
Vdso      == <<"linux-vdso", ".", "so.1">>

LibPaths == {UsrLibFoo, UsrLibBar, LibFoo, RootFoo}

\* str::starts_with('/')
StartsWithSep(s) == s # <<>> /\ Head(s) = SEP

\* &s[1..]
StripFirst(s) == Tail(s)

\* Index of the last separator of s, 0 if there is none.
LastSep(s) ==
    LET idx == {i \in 1..Len(s) : s[i] = SEP}
    IN  IF idx = {} THEN 0 ELSE CHOOSE i \in idx : \A j \in idx : j <= i

\* Path::file_name: the final component, <<>> for None (the root itself).
FileName(s) == SubSeq(s, LastSep(s) + 1, Len(s))

\* Path::parent: the path without its final component; the root's child has
\* the root as parent.
Parent(s) ==
    IF LastSep(s) = 1 THEN <<SEP>> ELSE SubSeq(s, 1, LastSep(s) - 1)

\* The components of a relative or absolute path text (Path::components).
RECURSIVE Components(_)
Components(s) ==
    IF s = <<>> THEN <<>>
    ELSE IF Head(s) = SEP THEN Components(Tail(s))
    ELSE LET seps == {i \in 1..Len(s) : s[i] = SEP}
             n    == IF seps = {} THEN Len(s) + 1
                     ELSE CHOOSE i \in seps : \A j \in seps : i <= j
         IN  <<SubSeq(s, 1, n - 1)>> \o Components(SubSeq(s, n, Len(s)))

\* Path::join of a tree path (a sequence of components) and a path text: an
\* absolute text replaces the base, and then names a path outside the tree.
Join(base, rel) ==
    IF StartsWithSep(rel) THEN <<<<SEP>>>> \o Components(rel)
    ELSE base \o Components(rel)

---------------------------------------------------------------------------
(* glob::Pattern *)

\* Mutant: every pattern is taken as it is.
PatternValid_Any(p) == TRUE

\* Pattern::new fails on an opening bracket that is never closed.
PatternValid(p) ==
    \A i \in 1..Len(p) : p[i] = "[" => \E j \in (i+1)..Len(p) : p[j] = "]"

\* Pattern::matches: "*" matches any run of tokens, anything else itself.
RECURSIVE Matches(_, _)
Matches(p, s) ==
    IF p = <<>> THEN s = <<>>
    ELSE IF Head(p) = "*"
         THEN Matches(Tail(p), s) \/ (s # <<>> /\ Matches(p, Tail(s)))
         ELSE s # <<>> /\ Head(s) = Head(p) /\ Matches(Tail(p), Tail(s))

\* link_exclude_list.iter().any(|p| p.matches(file_name))
Excluded(list, name) == \E i \in 1..Len(list) : Matches(list[i], name)

---------------------------------------------------------------------------
(* The file-system tree under the cargo target directory.  A tree is a      *)
(* function from paths (sequences of components, relative to target_prefix) *)
(* to nodes.  Host libraries are regular files outside this tree.           *)

DirNode        == [kind |-> "dir",  data |-> <<>>]
FileNode(d)    == [kind |-> "file", data |-> d]
LinkNode(t)    == [kind |-> "link", data |-> t]

IsPrefix(p, q) == Len(p) <= Len(q) /\ SubSeq(q, 1, Len(p)) = p

\* Path::exists.  Every symlink of the tree points at a host library, a
\* regular file, so no path of the tree leads through a symlink.
Exists(f, p) == p = <<>> \/ p \in DOMAIN f

\* fs_extra::dir::remove
Remove(f, p) == [q \in {r \in DOMAIN f : ~IsPrefix(p, r)} |-> f[q]]

\* std::fs::create_dir_all
CreateDirAll(f, p) ==
    LET pre == {SubSeq(p, 1, n) : n \in 1..Len(p)}
    IN  [q \in DOMAIN f \cup pre |-> IF q \in DOMAIN f THEN f[q] ELSE DirNode]

\* Mutant: the erase flag is ignored.
CreateAll_NoErase(f, p, erase) == CreateDirAll(f, p)

\* fs_extra::dir::create_all(path, erase)
CreateAll(f, p, erase) ==
    CreateDirAll(IF erase /\ Exists(f, p) THEN Remove(f, p) ELSE f, p)

\* Mutant: an existing directory is kept as it is.
Create_KeepOld(f, p, erase) ==
    IF Exists(f, p) THEN f
    ELSE [q \in DOMAIN f \cup {p} |-> IF q = p THEN DirNode ELSE f[q]]

\* fs_extra::dir::create(path, erase), called on a path whose parent exists
Create(f, p, erase) ==
    LET g == IF erase /\ Exists(f, p) THEN Remove(f, p) ELSE f
    IN  [q \in DOMAIN g \cup {p} |-> IF q = p THEN DirNode ELSE g[q]]

\* std::fs::copy / std::fs::write: a regular file with the given bytes
WriteFile(f, p, d) ==
    [q \in DOMAIN f \cup {p} |-> IF q = p THEN FileNode(d) ELSE f[q]]

\* std::os::unix::fs::symlink, called on a path that does not exist
Symlink(f, p, t) ==
    [q \in DOMAIN f \cup {p} |-> IF q = p THEN LinkNode(t) ELSE f[q]]

\* std::fs::read_dir: the entries directly under p
ReadDir(f, p) == {q \in DOMAIN f : Len(q) = Len(p) + 1 /\ IsPrefix(p, q)}

\* The bytes of the host library at path P.
HostBytes(P) == <<"bytes of">> \o P

---------------------------------------------------------------------------
(* Inputs *)

\* meta.bin, in manifest order
Bins == <<"app", "tool">>

\* auto_link_exclude_list values, over the globs "libbar.*", "libfoo.*" and
\* the invalid "[".
PatBar == <<"libbar", ".", "*">>
PatFoo == <<"libfoo", ".", "*">>
PatBad == <<"[">>
ExcludeLists == {<<>>, <<PatBar>>, <<PatFoo, PatBar>>, <<PatBad>>}

\* [package.metadata.appimage]; auto_link FALSE stands for false or absent.
Manifests ==
    [auto_link : BOOLEAN, auto_link_exclude_list : ExcludeLists]

\* ldd output lines, as whitespace-separated fields.
Resolved(P) == <<FileName(P), <<"=>">>, P, <<"(0x7f)">>>>
Direct(P)   == <<P, <<"(0x7f)">>>>

LddStdouts ==
    { <<>>,
      <<Direct(Vdso), Resolved(UsrLibFoo), Resolved(UsrLibBar)>>,
      <<Resolved(LibFoo)>>,
      <<Resolved(UsrLibFoo), Resolved(LibFoo)>>,
      <<Resolved(UsrLibFoo), Direct(RootFoo)>>,
      <<Resolved(UsrLibBar), Resolved(UsrLibBar)>> }

\* What `ldd <binary> | awk` can come to (lines 70-102): a tool cannot be
\* started, the output is not UTF-8, or ldd exits with a status and a stdout.
\* On a missing binary ldd exits with status 1 and an empty stdout.
LddResults(built) ==
    { [kind |-> "not started", stdout |-> <<>>],
      [kind |-> "exit 1", stdout |-> <<>>] }
    \cup IF built
         THEN { [kind |-> "not utf8", stdout |-> <<>>] }
              \cup { [kind |-> "exit 0", stdout |-> o] : o \in LddStdouts }
         ELSE {}

\* awk 'NF == 4 {print $3}; NF == 2 {print $1}'
RECURSIVE Awk(_)
Awk(out) ==
    IF out = <<>> THEN <<>>
    ELSE LET l == Head(out)
         IN  (IF Len(l) = 4 THEN <<l[3]>>
              ELSE IF Len(l) = 2 THEN <<l[1]>> ELSE <<>>) \o Awk(Tail(out))

---------------------------------------------------------------------------
(* State *)

VARIABLES
    pc,                \* position in main; "start", "done", "failed": not running
    run,               \* number of invocations so far
    meta,              \* the manifest's appimage table, read by get_manifest
    link_deps,         \* main's link_deps
    link_exclude_list, \* main's link_exclude_list
    cur,               \* index of currentbin in meta.bin, 0 before the loop
    fs,                \* the tree under target_prefix
    pruned,            \* library files this run erased and has not written again
    bin_exists,        \* whether the built binary of currentbin exists
    ldd,               \* per binary: how ldd | awk ended in this run, or "none"
    linkedlibs,        \* per binary: stage_libs' linkedlibs at its last call
    libs,              \* per binary: the list stage_libs returned at its last call
    calls,             \* external tools and components invoked in this run
    err                \* the error main returned: its context chain, <<>> if none

vars == <<pc, run, meta, link_deps, link_exclude_list, cur, fs, pruned,
          bin_exists, ldd, linkedlibs, libs, calls, err>>

BinNames == {Bins[i] : i \in 1..Len(Bins)}

\* name, appdirpath and the paths main derives from them
name           == Bins[cur]
AppDir(b)      == <<<<b, ".AppDir">>>>
appdirpath     == AppDir(name)
lib_dir_staged == Join(appdirpath, <<"libs">>)
UsrBin(b)      == Join(AppDir(b), <<"usr", "/", "bin", "/", b>>)
IconPath(b)    == Join(AppDir(b), <<"icon.png">>)
DesktopPath(b) == Join(AppDir(b), <<"cargo-appimage.desktop">>)
AppRunPath(b)  == Join(AppDir(b), <<"AppRun">>)
StageDir       == <<<<"appimage_build">>>>
OutDir         == <<<<"appimage">>>>

\* The mirrored path of library P in the AppDir of b (lines 273-277), and
\* the library files of a tree.
Mirror(b, P) == Join(AppDir(b), StripFirst(P))
LibMirrors   == {Mirror(b, P) : b \in BinNames, P \in LibPaths}
LibFiles(f)  == {p \in LibMirrors \cap DOMAIN f : f[p].kind = "file"}

\* `?` on an Err: main returns the error.
Fail(ctx) == pc' = "failed" /\ err' = ctx

Init ==
    /\ pc = "start"
    /\ run = 0
    /\ meta = [auto_link |-> FALSE, auto_link_exclude_list |-> <<>>]
    /\ link_deps = FALSE
    /\ link_exclude_list = <<>>
    /\ cur = 0
    /\ fs = <<>>
    /\ pruned = {}
    /\ bin_exists = TRUE
    /\ ldd = [b \in BinNames |-> "none"]
    /\ linkedlibs = [b \in BinNames |-> <<>>]
    /\ libs = [b \in BinNames |-> <<>>]
    /\ calls = {}
    /\ err = <<>>

\* main, lines 124-132: a new invocation loads the manifest.
GetManifest ==
    /\ pc \in {"start", "done", "failed"}
    /\ run < MaxRuns
    /\ run' = run + 1
    /\ \E m \in Manifests : meta' = m
    /\ link_deps' = FALSE
    /\ link_exclude_list' = <<>>
    /\ cur' = 0
    /\ pruned' = {}
    /\ ldd' = [b \in BinNames |-> "none"]
    /\ calls' = {}
    /\ err' = <<>>
    /\ pc' = "build"
    /\ bin_exists' = TRUE
    /\ UNCHANGED <<fs, linkedlibs, libs>>

\* main, lines 134-147: cargo build.
CargoBuild ==
    /\ pc = "build"
    /\ calls' = calls \cup {<<"cargo build">>}
    /\ \E success \in BOOLEAN :
          IF success THEN pc' = "stage_dir" /\ err' = err
          ELSE Fail(<<"Failed to build package">>)
    /\ UNCHANGED <<run, meta, link_deps, link_exclude_list, cur, fs, pruned,
                   bin_exists, ldd, linkedlibs, libs>>

\* main, lines 149-155: the appimage_build directory, erased and recreated.
CreateStageDir ==
    /\ pc = "stage_dir"
    /\ fs' = CreateAll(fs, StageDir, TRUE)
    /\ pc' = "metadata"
    /\ UNCHANGED <<run, meta, link_deps, link_exclude_list, cur, pruned,
                   bin_exists, ldd, linkedlibs, libs, calls, err>>

\* main, lines 170-226: auto_link and auto_link_exclude_list are read.
ParseMetadata ==
    /\ pc = "metadata"
    /\ link_deps' = meta.auto_link
    /\ LET l == meta.auto_link_exclude_list
       IN  IF \A i \in 1..Len(l) : PatternValid(l[i])
           THEN /\ link_exclude_list' = l
                /\ cur' = 1
                /\ pc' = "skeleton"
                /\ err' = err
           ELSE /\ link_exclude_list' = link_exclude_list
                /\ cur' = cur
                /\ Fail(<<"Auto-link exclude list item not a valid glob pattern">>)
    /\ UNCHANGED <<run, meta, fs, pruned, bin_exists, ldd, linkedlibs, libs,
                   calls>>

\* Mutant: the whole AppDir is erased, not its usr subtree.
SkeletonTree_EraseAppDir(f, app) ==
    CreateAll(CreateAll(f, app, TRUE), Join(app, <<"usr", "/", "bin">>), TRUE)

\* main, lines 231-235: create_all(usr, erase) and create_all(usr/bin, erase)
SkeletonTree(f, app) ==
    CreateAll(CreateAll(f, Join(app, <<"usr">>), TRUE),
              Join(app, <<"usr", "/", "bin">>), TRUE)

\* main, lines 229-235: usr and usr/bin, each erased and recreated.  Whether
\* cargo build left a binary at <target_prefix>/<target>/<name> is fixed from
\* here on.
Skeleton ==
    /\ pc = "skeleton"
    /\ fs' = SkeletonTree(fs, appdirpath)
    /\ pruned' = (pruned \cup LibFiles(fs)) \ LibFiles(fs')
    /\ bin_exists' \in BOOLEAN
    /\ pc' = IF link_deps THEN "stage_libs" ELSE "materialize"
    /\ UNCHANGED <<run, meta, link_deps, link_exclude_list, cur, ldd,
                   linkedlibs, libs, calls, err>>

\* stage_libs, lines 106-120: the loop over the lines of linkedlibs.
RECURSIVE StageLoop(_, _, _, _)
StageLoop(f, dir, lines, acc) ==
    IF lines = <<>> THEN [ok |-> TRUE, fs |-> f, libs |-> acc]
    ELSE LET line     == Head(lines)
             lib_path == Join(dir, StripFirst(line))
         IN  IF StartsWithSep(line) /\ ~Exists(f, lib_path)
             THEN LET staged_path == Append(dir, FileName(line))
                  IN  IF staged_path \in DOMAIN f
                      THEN [ok |-> FALSE, fs |-> f, libs |-> acc]
                      ELSE StageLoop(Symlink(f, staged_path, line), dir,
                                     Tail(lines), Append(acc, staged_path))
             ELSE StageLoop(f, dir, Tail(lines), acc)

\* main, lines 238-246, and stage_libs, lines 60-121.
StageLibs ==
    /\ pc = "stage_libs"
    /\ calls' = calls \cup {<<"stage_libs", name>>, <<"ldd", name>>}
    /\ \E r \in LddResults(bin_exists) :
          LET f1 == IF Exists(fs, lib_dir_staged) THEN fs
                    ELSE Create(fs, lib_dir_staged, FALSE)
          IN  /\ ldd' = [ldd EXCEPT ![name] = r.kind]
              /\ IF r.kind = "not started"
                 THEN /\ fs' = f1
                      /\ Fail(<<"Could not stage libs", "Failed to run ldd">>)
                      /\ UNCHANGED <<linkedlibs, libs>>
                 ELSE IF r.kind = "not utf8"
                 THEN /\ fs' = f1
                      /\ Fail(<<"Could not stage libs",
                                "stream did not contain valid UTF-8">>)
                      /\ UNCHANGED <<linkedlibs, libs>>
                 ELSE LET lines == Awk(r.stdout)
                          res   == StageLoop(Create(f1, lib_dir_staged, TRUE),
                                             lib_dir_staged, lines, <<>>)
                      IN  /\ linkedlibs' = [linkedlibs EXCEPT ![name] = lines]
                          /\ fs' = res.fs
                          /\ IF res.ok
                             THEN /\ libs' = [libs EXCEPT ![name] = res.libs]
                                  /\ pc' = "materialize"
                                  /\ err' = err
                             ELSE /\ libs' = libs
                                  /\ Fail(<<"Could not stage libs",
                                            "Error symlinking">>)
    /\ UNCHANGED <<run, meta, link_deps, link_exclude_list, cur, pruned,
                   bin_exists>>

\* Mutant: the mirrored path becomes a symlink to the library, not a copy.
CopyLib_Link(f, app, entry) ==
    LET link == f[entry].data
        dest == Join(app, StripFirst(link))
    IN  Symlink(CreateAll(f, Join(app, StripFirst(Parent(link))), FALSE),
                dest, link)

\* main, lines 259-280: one staged entry is copied to its mirrored path.
CopyLib(f, app, entry) ==
    LET link == f[entry].data
        dest == Join(app, StripFirst(link))
    IN  WriteFile(CreateAll(f, Join(app, StripFirst(Parent(link))), FALSE),
                  dest, HostBytes(link))

RECURSIVE CopyLibs(_, _, _)
CopyLibs(f, app, entries) ==
    IF entries = {} THEN f
    ELSE LET e == CHOOSE x \in entries : TRUE
         IN  CopyLibs(CopyLib(f, app, e), app, entries \ {e})

\* Mutant: the exclusion list is not consulted.
Keep_All(f, dir, list) == ReadDir(f, dir)

\* main, lines 249-257: the entries of the staging directory that no
\* exclusion pattern matches.
Keep(f, dir, list) ==
    {e \in ReadDir(f, dir) : ~Excluded(list, e[Len(e)])}

\* main, lines 248-282: every entry of the staging directory that no
\* exclusion pattern matches is materialized; a failing copy ends the run
\* with the entries handled before it in place.  The materializer counts as
\* invoked when the loop has an entry to handle.
Materialize ==
    /\ pc = "materialize"
    /\ IF ~Exists(fs, lib_dir_staged)
       THEN /\ pc' = "copy_bin"
            /\ UNCHANGED <<fs, calls, err>>
       ELSE LET keep == Keep(fs, lib_dir_staged, link_exclude_list)
            IN  /\ calls' = calls \cup IF ReadDir(fs, lib_dir_staged) = {} THEN {}
                                       ELSE {<<"materialize", name>>}
                /\ \E done \in SUBSET keep :
                      /\ fs' = CopyLibs(fs, appdirpath, done)
                      /\ IF done = keep
                         THEN pc' = "copy_bin" /\ err' = err
                         ELSE Fail(<<"Error copying">>)
    /\ pruned' = (pruned \cup LibFiles(fs)) \ LibFiles(fs')
    /\ UNCHANGED <<run, meta, link_deps, link_exclude_list, cur, bin_exists,
                   ldd, linkedlibs, libs>>

\* main, lines 284-293: the built binary is copied to usr/bin/<name>.
CopyBinary ==
    /\ pc = "copy_bin"
    /\ IF bin_exists
       THEN /\ fs' = WriteFile(fs, UsrBin(name), <<"ELF", name>>)
            /\ pc' = "icon"
            /\ err' = err
       ELSE /\ fs' = fs
            /\ Fail(<<"Cannot find binary file">>)
    /\ UNCHANGED <<run, meta, link_deps, link_exclude_list, cur, pruned,
                   bin_exists, ldd, linkedlibs, libs, calls>>

\* main, lines 295-303: ./icon.png is copied, or an empty one written.  The
\* package root holds an icon.png during every other invocation.
Icon ==
    /\ pc = "icon"
    /\ LET is_file == run % 2 = 1
       IN  fs' = WriteFile(fs, IconPath(name),
                           IF is_file THEN <<"png">> ELSE <<>>)
    /\ pc' = "assets"
    /\ UNCHANGED <<run, meta, link_deps, link_exclude_list, cur, pruned,
                   bin_exists, ldd, linkedlibs, libs, calls, err>>

\* main, lines 304-314: the assets are copied (the asset list is empty here).
Assets ==
    /\ pc = "assets"
    /\ \E ok \in BOOLEAN :
          IF ok THEN pc' = "desktop" /\ err' = err
          ELSE Fail(<<"Error copying assets">>)
    /\ UNCHANGED <<run, meta, link_deps, link_exclude_list, cur, fs, pruned,
                   bin_exists, ldd, linkedlibs, libs, calls>>

\* main, lines 315-326: the desktop entry.
Desktop ==
    /\ pc = "desktop"
    /\ fs' = WriteFile(fs, DesktopPath(name),
                       <<"[Desktop Entry]", "Name=", name, "Exec=", name>>)
    /\ pc' = "apprun"
    /\ UNCHANGED <<run, meta, link_deps, link_exclude_list, cur, pruned,
                   bin_exists, ldd, linkedlibs, libs, calls, err>>

\* Mutant: a missing launcher is a warning, and the run goes on.
AppRun_WarnOnly ==
    /\ pc = "apprun"
    /\ \E installed \in BOOLEAN :
          fs' = IF installed
                THEN WriteFile(fs, AppRunPath(name), <<"cargo-appimage-runner">>)
                ELSE fs
    /\ pc' = "bundle"
    /\ UNCHANGED <<run, meta, link_deps, link_exclude_list, cur, pruned,
                   bin_exists, ldd, linkedlibs, libs, calls, err>>

\* main, lines 327-334, and get_app_runner_binary_path, lines 47-58.
AppRun ==
    /\ pc = "apprun"
    /\ \E installed \in BOOLEAN :
          IF installed
          THEN /\ fs' = WriteFile(fs, AppRunPath(name), <<"cargo-appimage-runner">>)
               /\ pc' = "bundle"
               /\ err' = err
          ELSE /\ fs' = fs
               /\ Fail(<<"Could not get appimage runner from install dir">>)
    /\ UNCHANGED <<run, meta, link_deps, link_exclude_list, cur, pruned,
                   bin_exists, ldd, linkedlibs, libs, calls>>

\* main, lines 336-349: the output directory and appimagetool; then the
\* next binary of meta.bin, or Ok(()).
Bundle ==
    /\ pc = "bundle"
    /\ fs' = CreateDirAll(fs, OutDir)
    /\ \E started \in BOOLEAN :
          IF started
          THEN /\ calls' = calls \cup {<<"appimagetool", name>>}
               /\ cur' = IF cur < Len(Bins) THEN cur + 1 ELSE cur
               /\ pc' = IF cur < Len(Bins) THEN "skeleton" ELSE "done"
               /\ err' = err
          ELSE /\ calls' = calls
               /\ cur' = cur
               /\ Fail(<<"Error occurred: make sure that appimagetool is installed">>)
    /\ UNCHANGED <<run, meta, link_deps, link_exclude_list, pruned, bin_exists,
                   ldd, linkedlibs, libs>>

Next ==
    \/ GetManifest
    \/ CargoBuild
    \/ CreateStageDir
    \/ ParseMetadata
    \/ Skeleton
    \/ StageLibs
    \/ Materialize
    \/ CopyBinary
    \/ Icon
    \/ Assets
    \/ Desktop
    \/ AppRun
    \/ Bundle

Spec == Init /\ [][Next]_vars

---------------------------------------------------------------------------
(* Properties *)

BinIdx == 1..Len(Bins)

\* Processing of the i-th binary has got past the bundle skeleton in this run.
Started(i) == cur > i \/ (cur = i /\ pc # "skeleton")

LibsDir(b)  == Join(AppDir(b), <<"libs">>)
AbsLines(l) == SelectSeq(l, StartsWithSep)

\* A regular file with the bytes of P stands at P's mirrored path in the
\* AppDir of b, under directories.
Materialized(f, b, P) ==
    LET d == Mirror(b, P)
    IN  /\ d \in DOMAIN f
        /\ f[d] = FileNode(HostBytes(P))
        /\ \A n \in 1..(Len(d) - 1) :
              SubSeq(d, 1, n) \in DOMAIN f /\ f[SubSeq(d, 1, n)] = DirNode

\* Line i of l comes after a different absolute path with the same filename.
Shadowed(l, i) ==
    \E j \in 1..(i - 1) : /\ StartsWithSep(l[j])
                          /\ l[j] # l[i]
                          /\ FileName(l[j]) = FileName(l[i])

\* C1, as stated: after a successful run with auto_link enabled, every
\* reported absolute library path whose filename matches no exclusion
\* pattern is a regular file with the library's bytes at its mirrored path.
C1_Original ==
    (pc = "done" /\ link_deps) =>
        \A b \in BinNames : \A i \in 1..Len(linkedlibs[b]) :
            LET P == linkedlibs[b][i]
            IN  (StartsWithSep(P) /\ ~Excluded(link_exclude_list, FileName(P)))
                    => Materialized(fs, b, P)

\* C1, amended: the same, for every reported path that does not come after a
\* different reported path with the same base filename.
C1_Materialized ==
    (pc = "done" /\ link_deps) =>
        \A b \in BinNames : \A i \in 1..Len(linkedlibs[b]) :
            LET P == linkedlibs[b][i]
            IN  (/\ StartsWithSep(P)
                 /\ ~Excluded(link_exclude_list, FileName(P))
                 /\ ~Shadowed(linkedlibs[b], i))
                    => Materialized(fs, b, P)

C1_Witness ==
    /\ pc = "done"
    /\ link_deps
    /\ \E b \in BinNames :
          /\ Len(AbsLines(linkedlibs[b])) = 2
          /\ \E i \in 1..Len(linkedlibs[b]) :
                /\ StartsWithSep(linkedlibs[b][i])
                /\ ~Excluded(link_exclude_list, FileName(linkedlibs[b][i]))
                /\ Materialized(fs, b, linkedlibs[b][i])

\* C2, as stated: after a run that staged libraries, a staged library whose
\* filename matches an exclusion pattern has no file at its mirrored path,
\* and the staged libraries that match none are materialized.
C2_Original ==
    (pc = "done" /\ link_deps) =>
        \A b \in BinNames : \A e \in ReadDir(fs, LibsDir(b)) :
            IF Excluded(link_exclude_list, e[Len(e)])
            THEN Mirror(b, fs[e].data) \notin DOMAIN fs
            ELSE Materialized(fs, b, fs[e].data)

\* C2, amended: the materializer writes no file and creates no directory
\* for a staged library whose filename matches an exclusion pattern (its
\* mirrored path holds afterwards what it held before), and when it
\* succeeds the staged libraries that match none are materialized.
C2_NotWritten ==
    [][ (pc = "materialize" /\ Exists(fs, lib_dir_staged)) =>
          LET entries == ReadDir(fs, lib_dir_staged)
              out     == {e \in entries :
                             Excluded(link_exclude_list, e[Len(e)])}
          IN  /\ \A e \in out :
                    LET d == Mirror(name, fs[e].data)
                    IN  /\ d \in DOMAIN fs' <=> d \in DOMAIN fs
                        /\ d \in DOMAIN fs => fs'[d] = fs[d]
                        /\ \A n \in 1..(Len(d) - 1) :
                              SubSeq(d, 1, n) \in DOMAIN fs' \ DOMAIN fs =>
                                 \E k \in entries \ out :
                                    IsPrefix(SubSeq(d, 1, n),
                                             Mirror(name, fs[k].data))
              /\ pc' = "copy_bin" =>
                    \A k \in entries \ out :
                       Materialized(fs', name, fs[k].data)
      ]_vars

C2_Witness ==
    /\ pc = "copy_bin"
    /\ <<"materialize", name>> \in calls
    /\ \E e \in ReadDir(fs, lib_dir_staged) :
          /\ Excluded(link_exclude_list, e[Len(e)])
          /\ Mirror(name, fs[e].data) \notin DOMAIN fs
    /\ \E k \in ReadDir(fs, lib_dir_staged) :
          /\ ~Excluded(link_exclude_list, k[Len(k)])
          /\ Materialized(fs, name, fs[k].data)

\* C3, as stated: with auto_link false the dependency lister, the staging
\* symlinker and the materializer are never invoked, and the AppDir of a
\* processed binary has no usr/lib.
C3_Original ==
    ~meta.auto_link =>
        /\ \A b \in BinNames :
              calls \cap {<<"ldd", b>>, <<"stage_libs", b>>,
                          <<"materialize", b>>} = {}
        /\ \A i \in BinIdx :
              Started(i) =>
                 Join(AppDir(Bins[i]), <<"usr", "/", "lib">>) \notin DOMAIN fs

\* The staging directory of b holds exactly one symlink per absolute line of
\* l, named by the line's filename and pointing at the line.
StagedPath(b, P) == Append(LibsDir(b), FileName(P))
StagedExactly(f, b, l) ==
    LET a == AbsLines(l)
    IN  /\ ReadDir(f, LibsDir(b)) = {StagedPath(b, a[i]) : i \in 1..Len(a)}
        /\ \A i \in 1..Len(a) : f[StagedPath(b, a[i])] = LinkNode(a[i])

\* The absolute lines of l are one or more paths with distinct filenames.
DistinctNames(l) ==
    LET a == AbsLines(l)
    IN  /\ Len(a) >= 1
        /\ \A i, j \in 1..Len(a) : i # j => FileName(a[i]) # FileName(a[j])

\* stage_libs has read the output of ldd for currentbin in this step.
StageCall ==
    pc = "stage_libs" /\ ldd'[name] \in {"exit 0", "exit 1"}

\* C4, as stated: on paths with distinct filenames, a call on an empty or
\* missing staging directory creates and returns one symlink per path, and
\* a call that repeats the input of the call before it, on the directory
\* that call left, returns no symlink and leaves the directory as it is.
C4_Original ==
    [][ (StageCall /\ DistinctNames(linkedlibs'[name])) =>
          /\ pc' = "materialize"
          /\ IF /\ linkedlibs[name] = linkedlibs'[name]
                /\ Exists(fs, lib_dir_staged)
                /\ StagedExactly(fs, name, linkedlibs[name])
             THEN /\ libs'[name] = <<>>
                  /\ StagedExactly(fs', name, linkedlibs[name])
             ELSE ReadDir(fs, lib_dir_staged) = {} =>
                     /\ StagedExactly(fs', name, linkedlibs'[name])
                     /\ Len(libs'[name]) = Len(AbsLines(linkedlibs'[name]))
      ]_vars

\* C4, amended: on paths with distinct filenames every call, the first as
\* well as a repeated one, leaves the staging directory with exactly one
\* symlink per path and returns all of them, in the order of the input.
C4_RestagesAll ==
    [][ (StageCall /\ DistinctNames(linkedlibs'[name])) =>
          LET a == AbsLines(linkedlibs'[name])
          IN  /\ pc' = "materialize"
              /\ StagedExactly(fs', name, linkedlibs'[name])
              /\ libs'[name] = [i \in 1..Len(a) |-> StagedPath(name, a[i])]
      ]_vars

\* stage_libs has returned in a second run, on the input <</lib/libfoo.so.1>>
\* that it had in the first: the library's copy in the AppDir, which this
\* run has not made yet, is what the first run materialized from its staging.
C4_Witness ==
    /\ run = 2
    /\ pc = "materialize"
    /\ <<"stage_libs", name>> \in calls
    /\ linkedlibs[name] = <<LibFoo>>
    /\ Materialized(fs, name, LibFoo)
    /\ libs[name] = <<StagedPath(name, LibFoo)>>
    /\ StagedExactly(fs, name, linkedlibs[name])

\* C5: once the bundle skeleton of a binary is made and the built binary is
\* missing, its processing gets no further than the binary copy, the run
\* does not end well, and the AppDir holds no usr/bin/<name>.
C5_NoBinEntry ==
    (cur >= 1 /\ pc # "skeleton" /\ ~bin_exists) =>
        /\ pc \in {"stage_libs", "materialize", "copy_bin", "failed"}
        /\ pc = "failed" => err # <<>>
        /\ UsrBin(name) \notin DOMAIN fs

\* The binary copy fails in a second run, on an AppDir that an earlier run
\* had completed up to the launcher.
C5_Witness ==
    /\ run = 2
    /\ pc = "failed"
    /\ err = <<"Cannot find binary file">>
    /\ ~bin_exists
    /\ AppRunPath(name) \in DOMAIN fs

\* C6, as stated: when ldd cannot be started, exits with a non-zero status
\* or yields an unreadable output, the run fails at that binary.
C6_Original ==
    \A i \in BinIdx :
        ldd[Bins[i]] \in {"not started", "exit 1", "not utf8"} =>
            (cur = i /\ pc = "failed")

\* The exclude list of manifest m holds the glob "[".
InvalidGlob(m) ==
    \E i \in 1..Len(m.auto_link_exclude_list) :
        m.auto_link_exclude_list[i] = PatBad
GlobError == <<"Auto-link exclude list item not a valid glob pattern">>

\* The part of the tree that belongs to the binaries: their AppDirs.
PerBinary(f) == {q \in DOMAIN f : \E b \in BinNames : IsPrefix(AppDir(b), q)}

\* C7, as stated: a run whose exclude list holds an invalid glob fails on it
\* before cargo build is invoked and before any per-binary directory is made.
C7_Original ==
    (pc # "start" /\ InvalidGlob(meta)) =>
        /\ <<"cargo build">> \notin calls
        /\ cur = 0
        /\ pc = "failed" => err = GlobError

\* C7, amended: such a run never reaches the per-binary loop and changes no
\* AppDir; the glob error is raised after cargo build has run and the
\* appimage_build directory is made, and a failing build is reported first.
C7_BeforeLoop ==
    /\ [](  (pc # "start" /\ InvalidGlob(meta)) =>
              /\ pc \in {"build", "stage_dir", "metadata", "failed"}
              /\ cur = 0
              /\ calls \subseteq {<<"cargo build">>}
              /\ pc = "failed" =>
                    err \in {GlobError, <<"Failed to build package">>}
              /\ err = GlobError =>
                    /\ <<"cargo build">> \in calls
                    /\ StageDir \in DOMAIN fs )
    /\ [][ InvalidGlob(meta') =>
             /\ PerBinary(fs') = PerBinary(fs)
             /\ \A q \in PerBinary(fs) : fs'[q] = fs[q] ]_vars

C7_Witness ==
    /\ pc = "failed"
    /\ err = GlobError
    /\ InvalidGlob(meta)

\* C8, as stated: when linkedlibs holds two absolute lines with the same
\* filename, stage_libs succeeds, the staging directory holds one symlink
\* of that name, pointing at the first of them, and the returned list holds
\* that symlink once.
C8_Original ==
    \A b \in BinNames :
        (<<"stage_libs", b>> \in calls /\ ldd[b] \in {"exit 0", "exit 1"}) =>
            LET l == linkedlibs[b]
            IN  \A i, j \in 1..Len(l) :
                   (/\ i < j
                    /\ StartsWithSep(l[i]) /\ StartsWithSep(l[j])
                    /\ FileName(l[i]) = FileName(l[j])
                    /\ ~Shadowed(l, i)) =>
                       /\ ~(pc = "failed" /\ err[1] = "Could not stage libs")
                       /\ StagedPath(b, l[i]) \in DOMAIN fs
                       /\ fs[StagedPath(b, l[i])] = LinkNode(l[i])
                       /\ Len(SelectSeq(libs[b],
                              LAMBDA x : x = StagedPath(b, l[i]))) = 1

\* q lies in the usr subtree of an AppDir, or in its libs staging directory.
UnderUsr(q) == Len(q) >= 2 /\ q[2] \in {<<"usr">>, <<"libs">>}

\* C9, as stated: when a run ends well, every library file that was in the
\* tree when it started is in the tree.
C9_Original ==
    pc = "done" => pruned = {}

\* C9, amended: a library file outside the usr subtree (and the libs staging
\* directory) of its AppDir stays a file through every step of every later
\* run; the library files a run erases are under usr.
C9_KeptOutsideUsr ==
    /\ [][ \A q \in LibFiles(fs) : ~UnderUsr(q) => q \in LibFiles(fs') ]_vars
    /\ [](\A q \in pruned : UnderUsr(q))

\* A second run ends well, with auto_link on, and a library outside usr that
\* ldd no longer reports is still in the AppDir.
C9_Witness ==
    /\ run = 2
    /\ pc = "done"
    /\ link_deps
    /\ \E b \in BinNames :
          /\ Mirror(b, LibFoo) \in LibFiles(fs)
          /\ \A i \in 1..Len(linkedlibs[b]) : linkedlibs[b][i] # LibFoo

\* The calls made for the i-th binary in this run.
CallsOf(i) ==
    calls \cap {<<"ldd", Bins[i]>>, <<"stage_libs", Bins[i]>>,
                <<"materialize", Bins[i]>>, <<"appimagetool", Bins[i]>>}

====
